---- MODULE Spec2Model ----
(***************************************************************************)
(* The Tetris engine of tetris.js as a state machine.  The variables are   *)
(* the module-level "Game state" of the script (tetris.js:103-115) plus    *)
(* the environment the script acts on: the high-score file, the interval   *)
(* timers created with setInterval, and the phase of the process (start    *)
(* screen, playing, exited).  One action per event handler: the first      *)
(* keypress, each key of handleInput, a timer firing gameTick, SIGINT.     *)
(*                                                                         *)
(* Coordinates are those of the source: rows and columns count from 0,     *)
(* row 0 is the top of the board.  Sequences are indexed from 1, so cell   *)
(* (row, col) of a matrix m is m[row + 1][col + 1].                        *)
(*                                                                         *)
(* The Snake engine of snake.js is a second state machine over variables   *)
(* of its own (further down); each script is its own process, so the       *)
(* variables of one stay as they are in the steps of the other.            *)
(***************************************************************************)
EXTENDS Integers, Sequences, FiniteSets, TLC

(***************************************************************************)
(* Bounds of the model.  The source plays on a 10 x 20 board; the model    *)
(* checks the same code on a smaller board so that the reachable states    *)
(* can be enumerated.  MaxLines stops a game once that many lines have     *)
(* been cleared, MaxTimers is the number of timer handles.                 *)
(***************************************************************************)
BOARD_WIDTH == 4
BOARD_HEIGHT == 4
MaxLines == 2
MaxTimers == 2
MaxKind == 2
MaxClearedLines == 12

INITIAL_SPEED == 800
MIN_SPEED == 100
LEVEL_SPEED_STEP == 80

NULL == 0
NoFile == -1

\* Two more states of the high-score file: a path on which readFileSync and
\* writeFileSync throw, and a file whose text parseInt cannot read.
Unreadable == -2
Unparsable == -3

\* The catalog: kinds 0..6 are I, O, T, S, Z, J, L (PIECES[kind] in the source).
PIECES ==
  << <<<<1, 1, 1, 1>>>>,
     <<<<1, 1>>, <<1, 1>>>>,
     <<<<0, 1, 0>>, <<1, 1, 1>>>>,
     <<<<0, 1, 1>>, <<1, 1, 0>>>>,
     <<<<1, 1, 0>>, <<0, 1, 1>>>>,
     <<<<1, 0, 0>>, <<1, 1, 1>>>>,
     <<<<0, 0, 1>>, <<1, 1, 1>>>> >>

Kinds == 0..(Len(PIECES) - 1)

\* The kinds Math.random is made to give: the first MaxKind + 1 of the catalog.
Drawn == {k \in Kinds : k <= MaxKind}

\* PIECES[pieceIndex]: the catalog object of a kind (its colour and glyph follow
\* from the kind).
Piece(kind) == [kind |-> kind, shape |-> PIECES[kind + 1]]

NoPiece == [kind |-> -1, shape |-> <<>>]

points == <<0, 100, 300, 600, 1000>>

\* The kicks with +1 tried before -1.
kicksSwapped == <<0, 1, -1, -2, 2>>

kicks == <<0, -1, 1, -2, 2>>

Keys == {"left", "right", "up", "down", "space", "p", "q", "r", "x"}

VARIABLES board, currentPiece, currentX, currentY, score, lines, level,
          highScore, gameRunning, gamePaused, gameLoop, nextPieceIndex,
          file, timers, phase, call

\* The number of gravity ticks that moved the active piece since spawnPiece
\* selected it; it is counted where the ticks are followed (SpecTicks) and
\* stays 0 elsewhere.
VARIABLE ticks

\* The module-level "Game state" of snake.js (snake.js:37-46) and the
\* environment of that script: its high-score file, its timers, its phase.
VARIABLES snake, direction, nextDirection, food, snakeScore, snakeHighScore,
          snakeRunning, snakePaused, snakeLoop, snakeFile, snakeTimers,
          snakePhase

svars == <<snake, direction, nextDirection, food, snakeScore, snakeHighScore,
           snakeRunning, snakePaused, snakeLoop, snakeFile, snakeTimers,
           snakePhase>>

tvars == <<board, currentPiece, currentX, currentY, score, lines, level,
           highScore, gameRunning, gamePaused, gameLoop, nextPieceIndex,
           file, timers, phase, call, ticks>>

vars == <<tvars, svars>>

\* The whole state as one record, so that a handler is a function from state
\* to state and handlers compose the way the calls in the source do.
State ==
  [board |-> board, currentPiece |-> currentPiece, currentX |-> currentX,
   currentY |-> currentY, score |-> score, lines |-> lines, level |-> level,
   highScore |-> highScore, gameRunning |-> gameRunning,
   gamePaused |-> gamePaused, gameLoop |-> gameLoop,
   nextPieceIndex |-> nextPieceIndex, file |-> file, timers |-> timers,
   phase |-> phase]

\* call holds the latest call of isValidPosition or clearLines that is looked at
\* on its own: its arguments (the board is the board it reads) and its result.
NoCall == [op |-> "none", board |-> <<>>, shape |-> <<>>, x |-> 0, y |-> 0,
           result |-> FALSE]

Assign(g) ==
  /\ board' = g.board
  /\ currentPiece' = g.currentPiece
  /\ currentX' = g.currentX
  /\ currentY' = g.currentY
  /\ score' = g.score
  /\ lines' = g.lines
  /\ level' = g.level
  /\ highScore' = g.highScore
  /\ gameRunning' = g.gameRunning
  /\ gamePaused' = g.gamePaused
  /\ gameLoop' = g.gameLoop
  /\ nextPieceIndex' = g.nextPieceIndex
  /\ file' = g.file
  /\ timers' = g.timers
  /\ phase' = g.phase
  /\ UNCHANGED svars

Commit(g) == Assign(g) /\ call' = call /\ ticks' = ticks

EmptyRow == [c \in 1..BOARD_WIDTH |-> NULL]

\* initBoard
EmptyBoard == [r \in 1..BOARD_HEIGHT |-> EmptyRow]

\* What lockPiece stores in a cell: the piece object, of which the model keeps
\* the kind (1..7, so that it differs from NULL).
CellOf(piece) == piece.kind + 1

(***************************************************************************)
(* isValidPosition: the loops over rows and columns with their early       *)
(* returns.                                                                *)
(***************************************************************************)
\* The scan with the right edge tested by newX > BOARD_WIDTH; a cell in column
\* BOARD_WIDTH reads a board cell that is not there (undefined, falsy).
RECURSIVE ScanValidWide(_, _, _, _, _, _)
ScanValidWide(b, shape, x, y, row, col) ==
  IF row >= Len(shape) THEN TRUE
  ELSE IF col >= Len(shape[row + 1]) THEN ScanValidWide(b, shape, x, y, row + 1, 0)
  ELSE IF shape[row + 1][col + 1] # 0
    THEN LET newX == x + col
             newY == y + row
         IN  IF newX < 0 \/ newX > BOARD_WIDTH \/ newY >= BOARD_HEIGHT THEN FALSE
             ELSE IF newY >= 0 /\ newX < BOARD_WIDTH /\ b[newY + 1][newX + 1] # NULL
               THEN FALSE
             ELSE ScanValidWide(b, shape, x, y, row, col + 1)
    ELSE ScanValidWide(b, shape, x, y, row, col + 1)

RECURSIVE ScanValid(_, _, _, _, _, _)
ScanValid(b, shape, x, y, row, col) ==
  IF row >= Len(shape) THEN TRUE
  ELSE IF col >= Len(shape[row + 1]) THEN ScanValid(b, shape, x, y, row + 1, 0)
  ELSE IF shape[row + 1][col + 1] # 0
    THEN LET newX == x + col
             newY == y + row
         IN  IF newX < 0 \/ newX >= BOARD_WIDTH \/ newY >= BOARD_HEIGHT THEN FALSE
             ELSE IF newY >= 0 /\ b[newY + 1][newX + 1] # NULL THEN FALSE
             ELSE ScanValid(b, shape, x, y, row, col + 1)
    ELSE ScanValid(b, shape, x, y, row, col + 1)

isValidPosition(b, shape, x, y) == ScanValid(b, shape, x, y, 0, 0)

\* getSpeed
getSpeed(g) ==
  LET s == INITIAL_SPEED - (g.level - 1) * LEVEL_SPEED_STEP
  IN  IF s > MIN_SPEED THEN s ELSE MIN_SPEED

(***************************************************************************)
(* Timers.  timers[i] is the interval of timer i, 0 when it is not active; *)
(* setInterval takes the first handle that is not active.                  *)
(***************************************************************************)
FreeTimers(g) == {i \in 1..MaxTimers : g.timers[i] = 0}

setInterval(g, ms) ==
  LET id == CHOOSE i \in FreeTimers(g) : \A j \in FreeTimers(g) : i <= j
  IN  [g EXCEPT !.timers[id] = ms, !.gameLoop = id]

clearInterval(g) ==
  IF g.gameLoop \in 1..MaxTimers
  THEN [g EXCEPT !.timers[g.gameLoop] = 0]
  ELSE g

\* saveHighScore, were the exception of a failing write not caught: the
\* process ends with the error.
saveHighScoreUncaught(g) ==
  IF g.score > g.highScore
  THEN IF g.file = Unreadable THEN [g EXCEPT !.phase = "crashed"]
       ELSE [g EXCEPT !.file = g.score]
  ELSE g

\* saveHighScore: score.toString() is written when score > highScore; a write
\* that throws is caught and leaves everything as it is.
saveHighScore(g) ==
  IF g.score > g.highScore
  THEN IF g.file = Unreadable THEN g ELSE [g EXCEPT !.file = g.score]
  ELSE g

\* gameOver
gameOver(g) ==
  saveHighScore(clearInterval([g EXCEPT !.gameRunning = FALSE]))

\* spawnPiece as it would be without the check of the spawn position.
spawnPieceUnchecked(g, r1, r2) ==
  LET pieceIndex == IF g.nextPieceIndex = -1 THEN r1 ELSE g.nextPieceIndex
      piece == Piece(pieceIndex)
  IN  [g EXCEPT !.nextPieceIndex = r2, !.currentPiece = piece,
                !.currentX = (BOARD_WIDTH - Len(piece.shape[1])) \div 2,
                !.currentY = 0]

\* spawnPiece as it would be with the catalog entry shared with the active
\* piece and turned in place by rotatePiece: a kind spawned again right after
\* itself comes in the matrix it was left in.
spawnPieceAliased(g, r1, r2) ==
  LET pieceIndex == IF g.nextPieceIndex = -1 THEN r1 ELSE g.nextPieceIndex
      piece == IF g.currentPiece.kind = pieceIndex THEN g.currentPiece
               ELSE Piece(pieceIndex)
      x == (BOARD_WIDTH - Len(piece.shape[1])) \div 2
      g1 == [g EXCEPT !.nextPieceIndex = r2, !.currentPiece = piece,
                      !.currentX = x, !.currentY = 0]
  IN  IF ~isValidPosition(g1.board, piece.shape, x, 0) THEN gameOver(g1) ELSE g1

(***************************************************************************)
(* spawnPiece; r1 and r2 are the two values Math.random may be asked for.  *)
(***************************************************************************)
spawnPiece(g, r1, r2) ==
  LET pieceIndex == IF g.nextPieceIndex = -1 THEN r1 ELSE g.nextPieceIndex
      piece == Piece(pieceIndex)
      x == (BOARD_WIDTH - Len(piece.shape[1])) \div 2
      g1 == [g EXCEPT !.nextPieceIndex = r2, !.currentPiece = piece,
                      !.currentX = x, !.currentY = 0]
  IN  IF ~isValidPosition(g1.board, piece.shape, x, 0) THEN gameOver(g1) ELSE g1

\* initGame as it would be without  lines = 0.
initGameKeepLines(g, r1, r2) ==
  spawnPiece([g EXCEPT !.board = EmptyBoard, !.score = 0,
                       !.level = 1, !.nextPieceIndex = -1,
                       !.gameRunning = TRUE, !.gamePaused = FALSE], r1, r2)

\* initGame
initGame(g, r1, r2) ==
  spawnPiece([g EXCEPT !.board = EmptyBoard, !.score = 0, !.lines = 0,
                       !.level = 1, !.nextPieceIndex = -1,
                       !.gameRunning = TRUE, !.gamePaused = FALSE], r1, r2)

\* movePiece: the state after the call; the call returns canMove.
canMove(g, dx, dy) ==
  isValidPosition(g.board, g.currentPiece.shape, g.currentX + dx, g.currentY + dy)

\* movePiece as it would be with the check of the new position left out.
movePieceUnchecked(g, dx, dy) ==
  [g EXCEPT !.currentX = @ + dx, !.currentY = @ + dy]

\* movePiece as it would be without  currentY += dy.
movePieceColumnOnly(g, dx, dy) ==
  IF canMove(g, dx, dy) THEN [g EXCEPT !.currentX = @ + dx] ELSE g

movePiece(g, dx, dy) ==
  IF canMove(g, dx, dy)
  THEN [g EXCEPT !.currentX = @ + dx, !.currentY = @ + dy]
  ELSE g

\* The state of the start screen, before any game: the initial values of the
\* script's variables, highScore as loadHighScore left it.
Fresh(f, hs) ==
  [board |-> <<>>, currentPiece |-> NoPiece, currentX |-> 0, currentY |-> 0,
   score |-> 0, lines |-> 0, level |-> 1, highScore |-> hs,
   gameRunning |-> FALSE, gamePaused |-> FALSE, gameLoop |-> NULL,
   nextPieceIndex |-> -1, file |-> f, timers |-> [i \in 1..MaxTimers |-> 0],
   phase |-> "start"]

\* A position of snake.js: { x, y }.
Point(x, y) == [x |-> x, y |-> y]

\* The state of snake.js when the script has been loaded: the initial values
\* of its variables, highScore as loadHighScore left it.
SnakeFresh(f, hs) ==
  [snake |-> <<>>, direction |-> Point(1, 0), nextDirection |-> Point(1, 0),
   food |-> Point(0, 0), score |-> 0, highScore |-> hs,
   gameRunning |-> FALSE, gamePaused |-> FALSE, gameLoop |-> NULL,
   file |-> f, timers |-> [i \in 1..MaxTimers |-> 0], phase |-> "start"]

SnakeStarted(s) ==
  /\ snake = s.snake
  /\ direction = s.direction
  /\ nextDirection = s.nextDirection
  /\ food = s.food
  /\ snakeScore = s.score
  /\ snakeHighScore = s.highScore
  /\ snakeRunning = s.gameRunning
  /\ snakePaused = s.gamePaused
  /\ snakeLoop = s.gameLoop
  /\ snakeFile = s.file
  /\ snakeTimers = s.timers
  /\ snakePhase = s.phase

\* loadHighScore: parseInt of the file's text; 0 when there is no file
\* (highScore keeps its initial value), when the read throws (catch), and when
\* the text is no number (NaN || 0).
loadHighScore(f) == IF f \in {NoFile, Unreadable, Unparsable} THEN 0 ELSE f

\* What the high-score file holds when the process starts.
StartFiles == {NoFile}

\* The state once main has run: the high score is loaded, no game is started.
Init ==
  \E f \in StartFiles : \E g \in {Fresh(f, loadHighScore(f))} :
    /\ board = g.board
    /\ currentPiece = g.currentPiece
    /\ currentX = g.currentX
    /\ currentY = g.currentY
    /\ score = g.score
    /\ lines = g.lines
    /\ level = g.level
    /\ highScore = g.highScore
    /\ gameRunning = g.gameRunning
    /\ gamePaused = g.gamePaused
    /\ gameLoop = g.gameLoop
    /\ nextPieceIndex = g.nextPieceIndex
    /\ file = g.file
    /\ timers = g.timers
    /\ phase = g.phase
    /\ call = NoCall
    /\ ticks = 0
    /\ SnakeStarted(SnakeFresh(NoFile, 0))

(***************************************************************************)
(* rotatePiece.  Rotated is the matrix built by the two loops              *)
(* (rotated[col][rows - 1 - row] = shape[row][col]); TryKicks is the loop  *)
(* over the kicks, which returns at the first valid one.                   *)
(***************************************************************************)
\* The rotation as it would be with one row array shared by all rows of rotated
\* (Array(cols).fill(Array(rows).fill(0))): every row holds the last writes.
RotatedShared(shape) ==
  LET rows == Len(shape)
      cols == Len(shape[1])
  IN  [c \in 1..cols |-> [r \in 1..rows |-> shape[rows - r + 1][cols]]]

Rotated(shape) ==
  LET rows == Len(shape)
      cols == Len(shape[1])
  IN  [c \in 1..cols |-> [r \in 1..rows |-> shape[rows - r + 1][c]]]

\* The loop over the kicks as it would be with the rotated matrix committed in
\* place when no kick is valid.
RECURSIVE TryKicksKeep(_, _, _)
TryKicksKeep(g, rotated, i) ==
  IF i > Len(kicks) THEN [g EXCEPT !.currentPiece.shape = rotated]
  ELSE IF isValidPosition(g.board, rotated, g.currentX + kicks[i], g.currentY)
    THEN [g EXCEPT !.currentPiece.shape = rotated, !.currentX = @ + kicks[i]]
    ELSE TryKicksKeep(g, rotated, i + 1)

RECURSIVE TryKicks(_, _, _)
TryKicks(g, rotated, i) ==
  IF i > Len(kicks) THEN g
  ELSE IF isValidPosition(g.board, rotated, g.currentX + kicks[i], g.currentY)
    THEN [g EXCEPT !.currentPiece.shape = rotated, !.currentX = @ + kicks[i]]
    ELSE TryKicks(g, rotated, i + 1)

\* rotatePiece with a kick upwards added: the rotated piece is raised by one
\* row when it fits there.
rotatePieceLift(g) ==
  LET r == TryKicks(g, Rotated(g.currentPiece.shape), 1)
  IN  IF r.currentY > 0
         /\ isValidPosition(r.board, r.currentPiece.shape, r.currentX, r.currentY - 1)
      THEN [r EXCEPT !.currentY = @ - 1]
      ELSE r

rotatePiece(g) == TryKicks(g, Rotated(g.currentPiece.shape), 1)

(***************************************************************************)
(* lockPiece: the loops over the cells of the shape; a cell of the shape   *)
(* with boardY >= 0 is written into the board.                             *)
(***************************************************************************)
\* The loops of lockPiece as they would be without the test of shape[row][col]:
\* every cell of the matrix is written.
RECURSIVE LockCellsAll(_, _, _, _)
LockCellsAll(g, b, row, col) ==
  LET shape == g.currentPiece.shape IN
  IF row >= Len(shape) THEN b
  ELSE IF col >= Len(shape[row + 1]) THEN LockCellsAll(g, b, row + 1, 0)
  ELSE IF g.currentY + row >= 0
    THEN LockCellsAll(g, [b EXCEPT ![g.currentY + row + 1][g.currentX + col + 1] =
                                     CellOf(g.currentPiece)], row, col + 1)
    ELSE LockCellsAll(g, b, row, col + 1)

\* The loops of lockPiece with the test  currentY + row > 0: the cells of the
\* piece in the top row of the board are not written.
RECURSIVE LockCellsBelowTop(_, _, _, _)
LockCellsBelowTop(g, b, row, col) ==
  LET shape == g.currentPiece.shape IN
  IF row >= Len(shape) THEN b
  ELSE IF col >= Len(shape[row + 1]) THEN LockCellsBelowTop(g, b, row + 1, 0)
  ELSE IF shape[row + 1][col + 1] # 0 /\ g.currentY + row > 0
    THEN LockCellsBelowTop(g, [b EXCEPT ![g.currentY + row + 1][g.currentX + col + 1] =
                                          CellOf(g.currentPiece)], row, col + 1)
    ELSE LockCellsBelowTop(g, b, row, col + 1)

RECURSIVE LockCells(_, _, _, _)
LockCells(g, b, row, col) ==
  LET shape == g.currentPiece.shape IN
  IF row >= Len(shape) THEN b
  ELSE IF col >= Len(shape[row + 1]) THEN LockCells(g, b, row + 1, 0)
  ELSE IF shape[row + 1][col + 1] # 0 /\ g.currentY + row >= 0
    THEN LockCells(g, [b EXCEPT ![g.currentY + row + 1][g.currentX + col + 1] =
                                  CellOf(g.currentPiece)], row, col + 1)
    ELSE LockCells(g, b, row, col + 1)

lockPiece(g) == [g EXCEPT !.board = LockCells(g, g.board, 0, 0)]

(***************************************************************************)
(* clearLines.  ClearLoop is the loop from the bottom row up: a full row   *)
(* is spliced out and an empty row unshifted, and the same index is looked *)
(* at again; it yields the board and linesCleared.                         *)
(***************************************************************************)
IsFull(rowCells) == \A c \in 1..Len(rowCells) : rowCells[c] # NULL

\* The loop without row++: the row that moved into a cleared row's place is not
\* looked at.
RECURSIVE ClearLoopSkip(_, _, _)
ClearLoopSkip(b, row, linesCleared) ==
  IF row < 0 THEN [board |-> b, linesCleared |-> linesCleared]
  ELSE IF IsFull(b[row + 1])
    THEN ClearLoopSkip(<<EmptyRow>> \o SubSeq(b, 1, row) \o SubSeq(b, row + 2, Len(b)),
                       row - 1, linesCleared + 1)
    ELSE ClearLoopSkip(b, row - 1, linesCleared)

RECURSIVE ClearLoop(_, _, _)
ClearLoop(b, row, linesCleared) ==
  IF row < 0 THEN [board |-> b, linesCleared |-> linesCleared]
  ELSE IF IsFull(b[row + 1])
    THEN ClearLoop(<<EmptyRow>> \o SubSeq(b, 1, row) \o SubSeq(b, row + 2, Len(b)),
                   row, linesCleared + 1)
    ELSE ClearLoop(b, row - 1, linesCleared)

\* clearLines with the level recomputed before the points are added.
clearLinesNewLevel(g) ==
  LET done == ClearLoop(g.board, BOARD_HEIGHT - 1, 0)
      n == done.linesCleared
      g1 == [g EXCEPT !.board = done.board]
  IN  IF n > 0
      THEN [g1 EXCEPT !.score = @ + points[n + 1] * (((g.lines + n) \div 10) + 1),
                      !.lines = @ + n,
                      !.level = ((g.lines + n) \div 10) + 1]
      ELSE g1

\* clearLines with the level computed from linesCleared instead of lines.
clearLinesLevelOfCleared(g) ==
  LET done == ClearLoop(g.board, BOARD_HEIGHT - 1, 0)
      n == done.linesCleared
      g1 == [g EXCEPT !.board = done.board]
  IN  IF n > 0
      THEN [g1 EXCEPT !.score = @ + points[n + 1] * g.level,
                      !.lines = @ + n,
                      !.level = (n \div 10) + 1]
      ELSE g1

\* clearLines with the points taken from score (-= for +=).
clearLinesSubtract(g) ==
  LET done == ClearLoop(g.board, BOARD_HEIGHT - 1, 0)
      n == done.linesCleared
      g1 == [g EXCEPT !.board = done.board]
  IN  IF n > 0
      THEN [g1 EXCEPT !.score = @ - points[n + 1] * g.level,
                      !.lines = @ + n,
                      !.level = ((g.lines + n) \div 10) + 1]
      ELSE g1

clearLines(g) ==
  LET done == ClearLoop(g.board, BOARD_HEIGHT - 1, 0)
      n == done.linesCleared
      g1 == [g EXCEPT !.board = done.board]
  IN  IF n > 0
      THEN [g1 EXCEPT !.score = @ + points[n + 1] * g.level,
                      !.lines = @ + n,
                      !.level = ((g.lines + n) \div 10) + 1]
      ELSE g1

\* hardDrop; Dropped is the loop  while (movePiece(0, 1)) {}.
\* The drop as it would be when it took the lowest row at which the matrix is
\* valid, whatever lies between.
DroppedThrough(g) ==
  LET rows == {y \in g.currentY..BOARD_HEIGHT :
                 isValidPosition(g.board, g.currentPiece.shape, g.currentX, y)}
  IN  [g EXCEPT !.currentY = CHOOSE y \in rows : \A z \in rows : z <= y]

RECURSIVE Dropped(_)
Dropped(g) == IF canMove(g, 0, 1) THEN Dropped(movePiece(g, 0, 1)) ELSE g

\* The three calls with the line clear made before the lock.
clearLockSpawn(g, r1, r2) == spawnPiece(lockPiece(clearLines(g)), r1, r2)

\* The three calls with a board-full rule added: the game is over, without a
\* spawn, when the lock and the clear leave a cell in the top row.
lockClearSpawnTopOut(g, r1, r2) ==
  LET g1 == clearLines(lockPiece(g))
  IN  IF \E c \in 1..BOARD_WIDTH : g1.board[1][c] # NULL
      THEN gameOver(g1)
      ELSE spawnPiece(g1, r1, r2)

lockClearSpawn(g, r1, r2) == spawnPiece(clearLines(lockPiece(g)), r1, r2)

hardDrop(g, r1, r2) == lockClearSpawn(Dropped(g), r1, r2)

\* gameTick as it would be without the test of gamePaused.
gameTickWhilePaused(g, r1, r2) ==
  IF ~g.gameRunning THEN g
  ELSE IF ~canMove(g, 0, 1) THEN lockClearSpawn(g, r1, r2)
  ELSE movePiece(g, 0, 1)

\* gameTick as it would be without the test of gameRunning.
gameTickAfterGameOver(g, r1, r2) ==
  IF g.gamePaused THEN g
  ELSE IF ~canMove(g, 0, 1) THEN lockClearSpawn(g, r1, r2)
  ELSE movePiece(g, 0, 1)

\* gameTick
gameTick(g, r1, r2) ==
  IF ~g.gameRunning \/ g.gamePaused THEN g
  ELSE IF ~canMove(g, 0, 1) THEN lockClearSpawn(g, r1, r2)
  ELSE movePiece(g, 0, 1)

\* quitGame.  process.exit(0) ends the process: its timers and the values of
\* its variables are gone, the file stays as saveHighScore left it.
quitGame(g) ==
  LET g1 == saveHighScore(clearInterval([g EXCEPT !.gameRunning = FALSE]))
  IN  [Fresh(g1.file, g1.highScore) EXCEPT !.phase = "exited"]

\* handleInput
handleInput(g, key, r1, r2) ==
  IF ~g.gameRunning
  THEN IF key \in {"r", "R"}
       THEN LET g1 == initGame(g, r1, r2) IN setInterval(g1, getSpeed(g1))
       ELSE g
  ELSE IF key \in {"p", "P"} THEN [g EXCEPT !.gamePaused = ~@]
  ELSE IF g.gamePaused THEN g
  ELSE IF key \in {"left", "a"} THEN movePiece(g, -1, 0)
  ELSE IF key \in {"right", "d"} THEN movePiece(g, 1, 0)
  ELSE IF key \in {"up", "w"} THEN rotatePiece(g)
  ELSE IF key \in {"down", "s"}
    THEN IF ~canMove(g, 0, 1) THEN lockClearSpawn(g, r1, r2)
         ELSE movePiece(g, 0, 1)
  ELSE IF key = "space" THEN hardDrop(g, r1, r2)
  ELSE IF key \in {"q", "Q", "escape"} THEN quitGame(g)
  ELSE g

\* The callback of process.stdin.once('keypress') in main.
startGame(g, r1, r2) ==
  LET g1 == initGame(g, r1, r2) IN setInterval(g1, getSpeed(g1))

(***************************************************************************)
(* Actions.                                                                *)
(***************************************************************************)
\* A step that would take the count of cleared lines past MaxLines is not taken.
Bounded(g) == g.lines <= MaxLines

\* The first keypress: the 'keypress' listener (handleInput, when the key is
\* defined) runs first, then the once-listener that starts the game.
firstKey(g, key, r1, r2) ==
  [startGame(IF key = "undefined" THEN g ELSE handleInput(g, key, 0, 0), r1, r2)
     EXCEPT !.phase = "play"]

FirstKey ==
  /\ phase = "start"
  /\ \E key \in Keys \cup {"undefined"} : \E r1, r2 \in Drawn :
       \E g \in {firstKey(State, key, r1, r2)} : Commit(g)

\* The draws from Math.random a handler makes: r1 is the draw spawnPiece makes
\* only when no next kind is selected, r2 its draw of the next kind.  A handler
\* that does not reach spawnPiece draws nothing ({0} stands for a value that
\* is not read).
NoDraw == {0}
Playing == gameRunning /\ ~gamePaused
LockDraws == IF Playing /\ ~canMove(State, 0, 1) THEN Drawn ELSE NoDraw
DropDraws == IF Playing THEN Drawn ELSE NoDraw
NewGameDraws == IF ~gameRunning THEN Drawn ELSE NoDraw

KeyPress(key, R1, R2) ==
  /\ phase = "play"
  /\ \E r1 \in R1, r2 \in R2 :
       \E g \in {handleInput(State, key, r1, r2)} : Bounded(g) /\ Commit(g)

\* Each command is issued by the first key name of its case in handleInput; the
\* other names of the case ('a', 'd', 'w', 's', 'P', 'Q', 'escape', 'R') take
\* the same branch.
MoveLeft == KeyPress("left", NoDraw, NoDraw)
MoveRight == KeyPress("right", NoDraw, NoDraw)
RotateCW == KeyPress("up", NoDraw, NoDraw)
SoftDrop == KeyPress("down", NoDraw, LockDraws)
HardDrop == KeyPress("space", NoDraw, DropDraws)
TogglePause == KeyPress("p", NoDraw, NoDraw)
Quit == KeyPress("q", NoDraw, NoDraw)
Restart == KeyPress("r", NewGameDraws, NewGameDraws)
OtherKey == KeyPress("x", NoDraw, NoDraw)

\* An active interval timer fires gameTick.
GameTick ==
  /\ phase = "play"
  /\ \E t \in 1..MaxTimers : timers[t] # 0
  /\ \E r2 \in LockDraws :
       \E g \in {gameTick(State, 0, r2)} : Bounded(g) /\ Commit(g)

\* process.on('SIGINT', quitGame)
Sigint ==
  /\ phase # "exited"
  /\ \E g \in {quitGame(State)} : Commit(g)

Next ==
  \/ FirstKey
  \/ MoveLeft
  \/ MoveRight
  \/ RotateCW
  \/ SoftDrop
  \/ HardDrop
  \/ TogglePause
  \/ Quit
  \/ Restart
  \/ OtherKey
  \/ GameTick
  \/ Sigint

Spec == Init /\ [][Next]_vars

(***************************************************************************)
(* Properties.                                                             *)
(***************************************************************************)
(* clearLines and initGame on their own.  A game is started; the board at  *)
(* a call of clearLines is any stack a lock can leave: rows that are full, *)
(* or partly filled, below empty rows, at most as many full rows as points *)
(* has entries for.                                                        *)
(***************************************************************************)
FullRow == [c \in 1..BOARD_WIDTH |-> 1]

LeftGapRow == [c \in 1..BOARD_WIDTH |-> IF c = 1 THEN NULL ELSE 2]

RightGapRow == [c \in 1..BOARD_WIDTH |-> IF c = BOARD_WIDTH THEN NULL ELSE 3]

FullRows(b) == {r \in 1..Len(b) : IsFull(b[r])}

\* No row of the stack lies below an empty row of it, apart from the empty rows
\* on top.
IsStack(b) == \A r \in 1..(Len(b) - 1) : b[r + 1] = EmptyRow => b[r] = EmptyRow

StackBoards ==
  {b \in [1..BOARD_HEIGHT -> {EmptyRow, FullRow, LeftGapRow, RightGapRow}] :
     IsStack(b) /\ Cardinality(FullRows(b)) <= Len(points) - 1}

\* The state once the first key has started a game.
Started(g) ==
  /\ board = g.board
  /\ currentPiece = g.currentPiece
  /\ currentX = g.currentX
  /\ currentY = g.currentY
  /\ score = g.score
  /\ lines = g.lines
  /\ level = g.level
  /\ highScore = g.highScore
  /\ gameRunning = g.gameRunning
  /\ gamePaused = g.gamePaused
  /\ gameLoop = g.gameLoop
  /\ nextPieceIndex = g.nextPieceIndex
  /\ file = g.file
  /\ timers = g.timers
  /\ phase = g.phase
  /\ ticks = 0
  /\ SnakeStarted(SnakeFresh(NoFile, 0))

InitClear ==
  /\ Started(firstKey(Fresh(NoFile, loadHighScore(NoFile)), "undefined", 0, 0))
  /\ call = NoCall

\* clearLines, called with board b as the lock left it.
ClearLinesCall ==
  \E b \in StackBoards :
    \E g \in {clearLines([State EXCEPT !.board = b])} :
      /\ g.lines <= MaxClearedLines
      /\ Assign(g)
      /\ call' = [NoCall EXCEPT !.op = "clearLines", !.board = b]
      /\ ticks' = ticks

\* initGame, which starts the count of lines over.
InitGameCall ==
  /\ lines > 0
  /\ \E g \in {initGame(State, 0, 0)} :
       Assign(g) /\ call' = [NoCall EXCEPT !.op = "initGame"] /\ ticks' = ticks

NextClear == ClearLinesCall \/ InitGameCall

SpecClear == InitClear /\ [][NextClear]_vars

(***************************************************************************)
(* isValidPosition on its own: a running game over a stack without full    *)
(* rows, on which the piece of the game fits; the function is called with  *)
(* a matrix and a position, and its result is kept in call.                *)
(***************************************************************************)
CallShapes ==
  {PIECES[k + 1] : k \in Drawn} \cup {Rotated(PIECES[k + 1]) : k \in Drawn}

CallColumns == (0 - 1)..BOARD_WIDTH

CallRows == (0 - 2)..(BOARD_HEIGHT - 1)

InitValid ==
  \E b \in StackBoards : \E r1 \in Drawn :
    \E g \in {[firstKey(Fresh(NoFile, loadHighScore(NoFile)), "undefined", r1, 0)
                 EXCEPT !.board = b]} :
      /\ FullRows(b) = {}
      /\ isValidPosition(b, g.currentPiece.shape, g.currentX, g.currentY)
      /\ Started(g)
      /\ call = NoCall

IsValidPositionCall ==
  /\ \E shape \in CallShapes, x \in CallColumns, y \in CallRows :
       call' = [op |-> "isValidPosition", board |-> board, shape |-> shape,
                x |-> x, y |-> y, result |-> isValidPosition(board, shape, x, y)]
  /\ UNCHANGED <<board, currentPiece, currentX, currentY, score, lines, level,
                 highScore, gameRunning, gamePaused, gameLoop, nextPieceIndex,
                 file, timers, phase, ticks>>
  /\ UNCHANGED svars

NextValid == IsValidPositionCall

SpecValid == InitValid /\ [][NextValid]_vars

(***************************************************************************)
(* The gravity ticks of a piece, counted: the game with the commands that  *)
(* act on the active piece (move, rotate, soft drop, pause) and the timer, *)
(* ticks holding the number of gravity ticks that moved the active piece   *)
(* since it spawned.  A handler that reaches lockPiece and spawnPiece       *)
(* starts the count over.                                                  *)
(***************************************************************************)
\* The handler at hand reaches lockPiece: gameTick and the soft drop do when
\* the piece cannot move down.
Locks == Playing /\ ~canMove(State, 0, 1)

PieceKey(key) ==
  /\ phase = "play"
  /\ \E r2 \in LockDraws :
       \E g \in {handleInput(State, key, 0, r2)} :
         /\ Bounded(g)
         /\ Assign(g)
         /\ call' = call
         /\ ticks' = IF key = "down" /\ Locks THEN 0 ELSE ticks

TicksLeft == PieceKey("left")
TicksRight == PieceKey("right")
TicksRotate == PieceKey("up")
TicksSoftDrop == PieceKey("down")
TicksPause == PieceKey("p")

TicksGameTick ==
  /\ phase = "play"
  /\ \E t \in 1..MaxTimers : timers[t] # 0
  /\ \E r2 \in LockDraws :
       \E g \in {gameTick(State, 0, r2)} :
         /\ Bounded(g)
         /\ Assign(g)
         /\ call' = call
         /\ ticks' = IF ~Playing THEN ticks ELSE IF Locks THEN 0 ELSE ticks + 1

NextTicks ==
  \/ FirstKey
  \/ TicksLeft
  \/ TicksRight
  \/ TicksRotate
  \/ TicksSoftDrop
  \/ TicksPause
  \/ TicksGameTick

SpecTicks == Init /\ [][NextTicks]_vars

(***************************************************************************)
(* The game on a high-score file that cannot be used: the process starts   *)
(* with a file that cannot be read or written, or with one whose text is   *)
(* no number, and the player moves and hard-drops pieces, restarts and     *)
(* quits.                                                                  *)
(***************************************************************************)
BadFiles == {Unreadable, Unparsable}

InitBadFile ==
  \E f \in BadFiles :
    /\ Started(Fresh(f, loadHighScore(f)))
    /\ call = NoCall

NextBadFile ==
  \/ FirstKey
  \/ MoveLeft
  \/ MoveRight
  \/ HardDrop
  \/ Restart
  \/ Quit
  \/ Sigint

SpecBadFile == InitBadFile /\ [][NextBadFile]_vars

(***************************************************************************)
(* The Snake engine of snake.js.  The field of the source is 40 x 20; the  *)
(* model runs the same code on a smaller field, and stops a game once the  *)
(* score has reached MaxScore.  Positions are records { x, y } as in the   *)
(* source, x counting columns from 0 and y rows from 0; snake[1] is the    *)
(* head.  The handlers are functions on the record SnakeState, whose       *)
(* fields carry the names of the variables of snake.js.                    *)
(***************************************************************************)
WIDTH == 4
HEIGHT == 3
MaxScore == 10

TICK_RATE == 100

SnakeState ==
  [snake |-> snake, direction |-> direction, nextDirection |-> nextDirection,
   food |-> food, score |-> snakeScore, highScore |-> snakeHighScore,
   gameRunning |-> snakeRunning, gamePaused |-> snakePaused,
   gameLoop |-> snakeLoop, file |-> snakeFile, timers |-> snakeTimers,
   phase |-> snakePhase]

SnakeAssign(s) ==
  /\ snake' = s.snake
  /\ direction' = s.direction
  /\ nextDirection' = s.nextDirection
  /\ food' = s.food
  /\ snakeScore' = s.score
  /\ snakeHighScore' = s.highScore
  /\ snakeRunning' = s.gameRunning
  /\ snakePaused' = s.gamePaused
  /\ snakeLoop' = s.gameLoop
  /\ snakeFile' = s.file
  /\ snakeTimers' = s.timers
  /\ snakePhase' = s.phase
  /\ UNCHANGED tvars

\* loadHighScore of snake.js: parseInt of the file's text, 0 without a file.
snake_loadHighScore(f) == IF f = NoFile THEN 0 ELSE f

\* saveHighScore of snake.js: score.toString() is written, whatever highScore
\* and the file hold.
snake_saveHighScore(s) == [s EXCEPT !.file = s.score]

\* isSnakeAt, were it to leave out the last segment (the cell the tail is
\* about to leave).
isSnakeAtExceptTail(s, x, y) ==
  \E i \in 1..(Len(s.snake) - 1) : s.snake[i].x = x /\ s.snake[i].y = y

\* isSnakeAt
isSnakeAt(s, x, y) ==
  \E i \in 1..Len(s.snake) : s.snake[i].x = x /\ s.snake[i].y = y

\* spawnFood: the loop draws positions until one is not on the snake; f is
\* that last draw.
FieldCells == {Point(x, y) : x \in 0..(WIDTH - 1), y \in 0..(HEIGHT - 1)}

FreeCells(body) == {p \in FieldCells : \A i \in 1..Len(body) : body[i] # p}

spawnFood(s, f) == [s EXCEPT !.food = f]

\* initGame of snake.js
StartSnake ==
  LET startX == WIDTH \div 2
      startY == HEIGHT \div 2
  IN  <<Point(startX, startY), Point(startX - 1, startY),
        Point(startX - 2, startY)>>

snake_initGame(s, f) ==
  spawnFood([s EXCEPT !.snake = StartSnake,
                      !.direction = Point(1, 0),
                      !.nextDirection = Point(1, 0),
                      !.score = 0,
                      !.gameRunning = TRUE,
                      !.gamePaused = FALSE], f)

\* gameOver of snake.js
snake_gameOver(s) ==
  snake_saveHighScore(clearInterval([s EXCEPT !.gameRunning = FALSE]))

\* update.  NewHead is the cell ahead of the head in the direction the tick
\* commits (nextDirection).
NewHead(s) ==
  Point(s.snake[1].x + s.nextDirection.x, s.snake[1].y + s.nextDirection.y)

SpeedUp(s) ==
  LET ms == TICK_RATE - (s.score \div 50)
  IN  IF ms > 50
      THEN setInterval(clearInterval(s), IF ms > 50 THEN ms ELSE 50)
      ELSE s

Eat(s, f) ==
  LET s1 == [s EXCEPT !.score = @ + 10]
      s2 == IF s1.score > s1.highScore
            THEN [s1 EXCEPT !.highScore = s1.score] ELSE s1
  IN  SpeedUp(spawnFood(s2, f))

update(s, f) ==
  IF s.gamePaused THEN s
  ELSE
    LET s1 == [s EXCEPT !.direction = s.nextDirection]
        newHead == NewHead(s)
    IN  IF newHead.x < 0 \/ newHead.x >= WIDTH
           \/ newHead.y < 0 \/ newHead.y >= HEIGHT
        THEN snake_gameOver(s1)
        ELSE IF isSnakeAt(s1, newHead.x, newHead.y)
        THEN snake_gameOver(s1)
        ELSE LET s2 == [s1 EXCEPT !.snake = <<newHead>> \o @]
             IN  IF newHead.x = s2.food.x /\ newHead.y = s2.food.y
                 THEN Eat(s2, f)
                 ELSE [s2 EXCEPT !.snake = SubSeq(@, 1, Len(@) - 1)]

\* gameTick of snake.js
snake_gameTick(s, f) == IF s.gameRunning THEN update(s, f) ELSE s

\* quitGame of snake.js; process.exit(0) ends the process, the file stays.
snake_quitGame(s) ==
  LET s1 == snake_saveHighScore(clearInterval([s EXCEPT !.gameRunning = FALSE]))
  IN  [SnakeFresh(s1.file, s1.highScore) EXCEPT !.phase = "exited"]

\* handleInput of snake.js as it would be with the direction keys tested
\* against nextDirection, the direction asked for last, in place of direction.
snake_handleInputQueued(s, key, f) ==
  IF ~s.gameRunning
  THEN IF key \in {"r", "R"}
       THEN setInterval(snake_initGame(s, f), TICK_RATE)
       ELSE s
  ELSE IF key \in {"w", "up"}
    THEN IF s.nextDirection.y # 1
         THEN [s EXCEPT !.nextDirection = Point(0, -1)] ELSE s
  ELSE IF key \in {"s", "down"}
    THEN IF s.nextDirection.y # -1
         THEN [s EXCEPT !.nextDirection = Point(0, 1)] ELSE s
  ELSE IF key \in {"a", "left"}
    THEN IF s.nextDirection.x # 1
         THEN [s EXCEPT !.nextDirection = Point(-1, 0)] ELSE s
  ELSE IF key \in {"d", "right"}
    THEN IF s.nextDirection.x # -1
         THEN [s EXCEPT !.nextDirection = Point(1, 0)] ELSE s
  ELSE IF key \in {"p", "P"} THEN [s EXCEPT !.gamePaused = ~@]
  ELSE IF key \in {"q", "Q", "escape"} THEN snake_quitGame(s)
  ELSE s

\* handleInput of snake.js
snake_handleInput(s, key, f) ==
  IF ~s.gameRunning
  THEN IF key \in {"r", "R"}
       THEN setInterval(snake_initGame(s, f), TICK_RATE)
       ELSE s
  ELSE IF key \in {"w", "up"}
    THEN IF s.direction.y # 1
         THEN [s EXCEPT !.nextDirection = Point(0, -1)] ELSE s
  ELSE IF key \in {"s", "down"}
    THEN IF s.direction.y # -1
         THEN [s EXCEPT !.nextDirection = Point(0, 1)] ELSE s
  ELSE IF key \in {"a", "left"}
    THEN IF s.direction.x # 1
         THEN [s EXCEPT !.nextDirection = Point(-1, 0)] ELSE s
  ELSE IF key \in {"d", "right"}
    THEN IF s.direction.x # -1
         THEN [s EXCEPT !.nextDirection = Point(1, 0)] ELSE s
  ELSE IF key \in {"p", "P"} THEN [s EXCEPT !.gamePaused = ~@]
  ELSE IF key \in {"q", "Q", "escape"} THEN snake_quitGame(s)
  ELSE s

\* The callback of process.stdin.once('keypress') in main of snake.js.
snake_startGame(s, f) == setInterval(snake_initGame(s, f), TICK_RATE)

\* The first keypress: the 'keypress' listener (handleInput, when the key is
\* defined) runs first, then the once-listener that starts the game.
snake_firstKey(s, key, f1, f2) ==
  [snake_startGame(IF key = "undefined" THEN s
                   ELSE snake_handleInput(s, key, f1), f2)
     EXCEPT !.phase = "play"]

SnakeKeys == {"up", "down", "left", "right", "p", "q", "r", "x"}

InitSnake ==
  /\ Started(Fresh(NoFile, loadHighScore(NoFile)))
  /\ call = NoCall
  /\ snake = <<>>
  /\ direction = Point(1, 0)
  /\ nextDirection = Point(1, 0)
  /\ food = Point(0, 0)
  /\ snakeScore = 0
  /\ snakeHighScore = snake_loadHighScore(NoFile)
  /\ snakeRunning = FALSE
  /\ snakePaused = FALSE
  /\ snakeLoop = NULL
  /\ snakeFile = NoFile
  /\ snakeTimers = [i \in 1..MaxTimers |-> 0]
  /\ snakePhase = "start"

\* The positions spawnFood can end on when a handler reaches it: at a new game
\* the cells off the starting snake, at a tick the cells off the snake grown
\* by its new head.
NewGameFood == FreeCells(StartSnake)
TickFood == FreeCells(<<NewHead(SnakeState)>> \o snake)

SnakeFirstKey ==
  /\ snakePhase = "start"
  /\ \E key \in SnakeKeys \cup {"undefined"} : \E f1, f2 \in NewGameFood :
       \E s \in {snake_firstKey(SnakeState, key, f1, f2)} : SnakeAssign(s)

SnakeKeyPress(key, F) ==
  /\ snakePhase = "play"
  /\ \E f \in F : \E s \in {snake_handleInput(SnakeState, key, f)} :
       SnakeAssign(s)

SnakeUp == SnakeKeyPress("up", {Point(0, 0)})
SnakeDown == SnakeKeyPress("down", {Point(0, 0)})
SnakeLeft == SnakeKeyPress("left", {Point(0, 0)})
SnakeRight == SnakeKeyPress("right", {Point(0, 0)})
SnakeTogglePause == SnakeKeyPress("p", {Point(0, 0)})
SnakeQuit == SnakeKeyPress("q", {Point(0, 0)})
SnakeRestart == SnakeKeyPress("r", NewGameFood)
SnakeOtherKey == SnakeKeyPress("x", {Point(0, 0)})

\* An active interval timer fires gameTick.
SnakeTick ==
  /\ snakePhase = "play"
  /\ \E t \in 1..MaxTimers : snakeTimers[t] # 0
  /\ \E f \in TickFood : \E s \in {snake_gameTick(SnakeState, f)} :
       s.score <= MaxScore /\ SnakeAssign(s)

\* process.on('SIGINT', quitGame) in main of snake.js
SnakeSigint ==
  /\ snakePhase # "exited"
  /\ \E s \in {snake_quitGame(SnakeState)} : SnakeAssign(s)

NextSnake ==
  \/ SnakeFirstKey
  \/ SnakeUp
  \/ SnakeDown
  \/ SnakeLeft
  \/ SnakeRight
  \/ SnakeTogglePause
  \/ SnakeQuit
  \/ SnakeRestart
  \/ SnakeOtherKey
  \/ SnakeTick
  \/ SnakeSigint

SpecSnake == InitSnake /\ [][NextSnake]_vars

(***************************************************************************)
\* The cells <<row, col>> that the occupied entries of a matrix placed at
\* (x, y) cover.
Cells(shape, x, y) ==
  {<<y + rc[1], x + rc[2]>> :
     rc \in {p \in (0..(Len(shape) - 1)) \X (0..(Len(shape[1]) - 1)) :
               shape[p[1] + 1][p[2] + 1] # 0}}

\* The occupied cells of a board.
Occupied(b) ==
  {p \in (0..(BOARD_HEIGHT - 1)) \X (0..(BOARD_WIDTH - 1)) : b[p[1] + 1][p[2] + 1] # NULL}

ActiveCells == Cells(currentPiece.shape, currentX, currentY)

\* C1: whenever the game is running, every occupied cell of the active piece at
\* (currentX, currentY) has its column in [0, BOARD_WIDTH), its row below
\* BOARD_HEIGHT, and lies on an empty cell of the board.
C1_ActivePieceValid ==
  gameRunning =>
    \A p \in ActiveCells :
      /\ p[2] >= 0 /\ p[2] < BOARD_WIDTH
      /\ p[1] < BOARD_HEIGHT
      /\ p[1] >= 0 => p \notin Occupied(board)

\* C1 witness: a running game whose active piece has been rotated, moved off its
\* spawn column and moved down, above a board that holds locked pieces.
C1_Witness ==
  /\ gameRunning
  /\ currentPiece.shape # PIECES[currentPiece.kind + 1]
  /\ currentX # (BOARD_WIDTH - Len(PIECES[currentPiece.kind + 1][1])) \div 2
  /\ currentY > 0
  /\ Occupied(board) # {}

\* The high score the store holds: 0 while there is no file.
Stored == IF file = NoFile THEN 0 ELSE file

\* C2: over the games of one process run the stored high score never
\* decreases: a save with a score that does not exceed the stored value leaves
\* the store as it is.
C2_StoredNeverDecreases == [][Stored' >= Stored]_vars

(***************************************************************************)
(* The vocabulary of the claims, written from their wording and not from   *)
(* the loops above.                                                        *)
(***************************************************************************)
\* A matrix at (x, y) fits a board: every cell it covers is inside the columns,
\* above the floor and, when it is on the board, empty.
Fits(b, shape, x, y) ==
  \A p \in Cells(shape, x, y) :
    /\ p[2] \in 0..(BOARD_WIDTH - 1)
    /\ p[1] < BOARD_HEIGHT
    /\ p[1] >= 0 => b[p[1] + 1][p[2] + 1] = NULL

\* A board with the cells of a piece at (x, y) marked as that piece's.
LockedBoard(b, piece, x, y) ==
  [r \in 1..BOARD_HEIGHT |-> [c \in 1..BOARD_WIDTH |->
     IF <<r - 1, c - 1>> \in Cells(piece.shape, x, y) THEN CellOf(piece)
     ELSE b[r][c]]]

HasGap(rowCells) == \E c \in 1..BOARD_WIDTH : rowCells[c] = NULL

\* The number of completely full rows of a board.
FullRowCount(b) == Cardinality({r \in 1..BOARD_HEIGHT : ~HasGap(b[r])})

\* A board without its full rows: as many empty rows on top, then the rows
\* that are not full in their order.
ClearedBoard(b) ==
  [i \in 1..FullRowCount(b) |-> EmptyRow] \o SelectSeq(b, HasGap)

PointsFor(n) ==
  CASE n = 0 -> 0 [] n = 1 -> 100 [] n = 2 -> 300 [] n = 3 -> 600 [] n = 4 -> 1000

SpawnColumn(piece) == (BOARD_WIDTH - Len(piece.shape[1])) \div 2

\* g is what a lock of the active piece at row y, then the line clear, then
\* the spawn of the next piece leave of the game, in that order.
AfterLock(y, g) ==
  LET locked == LockedBoard(board, currentPiece, currentX, y)
      n == FullRowCount(locked)
      next == Piece(nextPieceIndex)
  IN  /\ g.board = ClearedBoard(locked)
      /\ g.score = score + PointsFor(n) * level
      /\ g.lines = lines + n
      /\ g.level = ((lines + n) \div 10) + 1
      /\ g.currentPiece = next
      /\ g.currentX = SpawnColumn(next)
      /\ g.currentY = 0
      /\ g.nextPieceIndex \in Kinds
      /\ g.gameRunning = Fits(g.board, next.shape, SpawnColumn(next), 0)

\* g is what a gravity tick leaves of the game.
AfterTick(g) ==
  IF Fits(board, currentPiece.shape, currentX, currentY + 1)
  THEN g = [State EXCEPT !.currentY = currentY + 1]
  ELSE AfterLock(currentY, g) /\ g.gamePaused = gamePaused /\ g.phase = phase

\* C3: a gravity tick of a running, unpaused game moves the piece down one row
\* and changes nothing else when that position fits; otherwise it locks the
\* piece, then clears and scores the full lines, then spawns the next piece,
\* and the game is over exactly when the spawned piece does not fit.
C3_GravityTick ==
  (phase = "play" /\ gameRunning /\ ~gamePaused) =>
    \A r2 \in Drawn : AfterTick(gameTick(State, 0, r2))

\* C3 witness: a running game in which a lock has already cleared a line, with
\* a timer active, where the next tick cannot move the piece down, its lock
\* fills a row, and the piece spawned after the clear does not fit.
C3_Witness ==
  /\ phase = "play" /\ gameRunning /\ ~gamePaused
  /\ \E t \in 1..MaxTimers : timers[t] # 0
  /\ lines >= 1
  /\ ~Fits(board, currentPiece.shape, currentX, currentY + 1)
  /\ LET locked == LockedBoard(board, currentPiece, currentX, currentY)
         next == Piece(nextPieceIndex)
     IN  /\ FullRowCount(locked) >= 1
         /\ ~Fits(ClearedBoard(locked), next.shape, SpawnColumn(next), 0)

\* The state in which a lock-triggering handler calls spawnPiece: the piece
\* dropped as far as it goes (where it stands, when a tick or a soft drop
\* cannot move it), locked, the lines cleared.
BeforeSpawn == clearLines(lockPiece(Dropped(State)))

\* C5: when the spawned piece, centered at row 0, overlaps an occupied cell of
\* the board, the spawn fails: the game is over and the board is the board of
\* before the spawn (and the game goes on when it does not overlap).
C5_SpawnFailure ==
  (phase = "play" /\ gameRunning /\ ~gamePaused) =>
    \A r2 \in Drawn :
      LET pre == BeforeSpawn
          g == spawnPiece(pre, 0, r2)
          next == Piece(nextPieceIndex)
      IN  IF Fits(pre.board, next.shape, SpawnColumn(next), 0)
          THEN g.gameRunning /\ g.board = pre.board
          ELSE ~g.gameRunning /\ g.board = pre.board /\ g.currentPiece = next

\* C5 witness: a game that is over with the spawned piece at its spawn position
\* over occupied cells of the board, none of which is marked as that piece's
\* beyond what the board held.
C5_Witness ==
  /\ phase = "play" /\ ~gameRunning
  /\ currentY = 0 /\ currentX = SpawnColumn(currentPiece)
  /\ currentPiece.shape = PIECES[currentPiece.kind + 1]
  /\ ActiveCells \cap Occupied(board) # {}
  /\ ActiveCells \ Occupied(board) # {}

\* The matrix the formula rotated[col][rows-1-row] = original[row][col] gives.
Clockwise(shape) ==
  [i \in 1..Len(shape[1]) |-> [j \in 1..Len(shape) |-> shape[Len(shape) + 1 - j][i]]]

IsClockwise(original, rotated) ==
  LET rows == Len(original)
      cols == Len(original[1])
  IN  /\ Len(rotated) = cols
      /\ \A row \in 0..(rows - 1), col \in 0..(cols - 1) :
           /\ Len(rotated[col + 1]) = rows
           /\ rotated[col + 1][(rows - 1 - row) + 1] = original[row + 1][col + 1]

\* The offsets of the wall kick, in the order of their priority.
KickOrder == <<0, -1, 1, -2, 2>>

\* The candidate of a rotation of the active piece is valid at offset number i.
KickFits(i) ==
  Fits(board, Clockwise(currentPiece.shape), currentX + KickOrder[i], currentY)

\* C8: the rotate command takes as candidate the clockwise rotation of the
\* matrix, commits it at the first of the offsets 0, -1, +1, -2, +2 at which it
\* is valid at the unchanged row (no earlier offset being valid) and changes
\* nothing when none is; currentY, the board, score, lines and level are
\* unchanged.
C8_RotateKickOrder ==
  (phase = "play" /\ gameRunning /\ ~gamePaused) =>
    LET g == handleInput(State, "up", 0, 0)
        rotated == Clockwise(currentPiece.shape)
    IN  /\ IsClockwise(currentPiece.shape, rotated)
        /\ g.currentY = currentY /\ g.board = board
        /\ g.score = score /\ g.lines = lines /\ g.level = level
        /\ IF \E i \in 1..Len(KickOrder) : KickFits(i)
           THEN LET first == CHOOSE i \in 1..Len(KickOrder) :
                               KickFits(i) /\ \A j \in 1..(i - 1) : ~KickFits(j)
                IN  /\ g.currentPiece.shape = rotated
                    /\ g.currentPiece.kind = currentPiece.kind
                    /\ g.currentX = currentX + KickOrder[first]
           ELSE g.currentPiece = currentPiece /\ g.currentX = currentX

\* C8 witness: a running game where the candidate is not valid at offset 0 and
\* valid both at offset -1 and at offset +1.
C8_Witness ==
  /\ phase = "play" /\ gameRunning /\ ~gamePaused
  /\ ~KickFits(1) /\ KickFits(2) /\ KickFits(3)

\* The state after the rotate command issued four times in a row.
FourRotations ==
  handleInput(handleInput(handleInput(handleInput(State, "up", 0, 0),
                                      "up", 0, 0), "up", 0, 0), "up", 0, 0)

\* The cells of set S moved dx columns to the right.
Shifted(S, dx) == {<<p[1], p[2] + dx>> : p \in S}

\* C9: the rotate command issued four times in a row from a running state
\* leaves the active piece on a cell set that equals the original cell set up
\* to a horizontal shift.
C9_FourRotationsRestore ==
  (phase = "play" /\ gameRunning /\ ~gamePaused) =>
    LET g == FourRotations
    IN  \E dx \in (0 - BOARD_WIDTH)..BOARD_WIDTH :
          Cells(g.currentPiece.shape, g.currentX, g.currentY) = Shifted(ActiveCells, dx)

\* The rotate command issued n times in a row from state g.
RECURSIVE Rotations(_, _)
Rotations(g, n) ==
  IF n = 0 THEN g ELSE handleInput(Rotations(g, n - 1), "up", 0, 0)

\* A rotation of the active piece of g commits: its candidate is valid at one of
\* the offsets.
Commits(g) ==
  \E i \in 1..Len(KickOrder) :
    Fits(g.board, Clockwise(g.currentPiece.shape), g.currentX + KickOrder[i], g.currentY)

\* The number of the first n rotate commands that commit.
RECURSIVE CommitCount(_)
CommitCount(n) ==
  IF n = 0 THEN 0
  ELSE CommitCount(n - 1) + (IF Commits(Rotations(State, n - 1)) THEN 1 ELSE 0)

\* The matrix turned clockwise n times.
RECURSIVE ClockwiseTimes(_, _)
ClockwiseTimes(shape, n) ==
  IF n = 0 THEN shape ELSE Clockwise(ClockwiseTimes(shape, n - 1))

\* C9 as amended: after the rotate command issued four times in a row from a
\* running state the matrix of the active piece is the original matrix turned
\* clockwise once per command that committed, at the unchanged row; when all
\* four commands commit (or none does) it is the original matrix and the cell
\* set is the original cell set shifted by the sum of the kicks.
C9_FourCommittedRotationsRestore ==
  (phase = "play" /\ gameRunning /\ ~gamePaused) =>
    LET g == FourRotations
        n == CommitCount(4)
    IN  /\ g.currentPiece.shape = ClockwiseTimes(currentPiece.shape, n)
        /\ g.currentY = currentY
        /\ n \in {0, 4} =>
             /\ g.currentPiece.shape = currentPiece.shape
             /\ Cells(g.currentPiece.shape, g.currentX, g.currentY) =
                  Shifted(ActiveCells, g.currentX - currentX)

\* C9 witness: a running game whose active piece is a T over a board that holds
\* locked pieces, where four rotate commands in a row all commit and the kicks
\* leave the piece in another column.
C9_Witness ==
  /\ phase = "play" /\ gameRunning /\ ~gamePaused
  /\ currentPiece.kind = 2
  /\ Occupied(board) # {}
  /\ CommitCount(4) = 4
  /\ FourRotations.currentX # currentX

\* C4: in every reachable state level = floor(lines / 10) + 1, so the level
\* after clears that total L lines is the same however the clears were grouped.
C4_LevelOfLines == level = (lines \div 10) + 1

\* C4 witness: a game whose clears, the latest of more than one line, have taken
\* the count of lines past ten and short of twenty.
C4_Witness ==
  /\ call.op = "clearLines" /\ Cardinality(FullRows(call.board)) >= 2
  /\ lines > 10 /\ lines < 20
  /\ lines - Cardinality(FullRows(call.board)) < 10

\* The game that clearLines leaves when it is called with board b.
Cleared(b) == clearLines([State EXCEPT !.board = b])

\* C6: after clearLines the board is k empty rows on top of the rows of the
\* prior board that were not full, in their order, k being the number of full
\* rows of the prior board and the number of lines counted; for every board,
\* whichever of its rows are full.
C6_ClearLinesResult ==
  \A b \in StackBoards :
    LET g == Cleared(b)
        k == FullRowCount(b)
    IN  /\ g.board = ClearedBoard(b)
        /\ Len(g.board) = BOARD_HEIGHT
        /\ \A r \in 1..k : g.board[r] = EmptyRow
        /\ g.lines = lines + k

\* C6 witness: clearLines has cleared a board with two full rows that are not
\* adjacent, above and between rows that are not full and differ, which the
\* call has moved down.
C6_Witness ==
  /\ call.op = "clearLines"
  /\ \E r \in 2..(BOARD_HEIGHT - 2) :
       /\ FullRows(call.board) = {r, r + 2}
       /\ call.board[r - 1] = LeftGapRow
       /\ call.board[r + 1] = RightGapRow
  /\ board = ClearedBoard(call.board)
  /\ board # call.board

Rejected(b, shape, x, y) ==
  \E p \in Cells(shape, x, y) :
    \/ p[2] < 0 \/ p[2] >= BOARD_WIDTH
    \/ p[1] >= BOARD_HEIGHT
    \/ /\ p[1] >= 0 /\ p[1] < BOARD_HEIGHT
       /\ p[2] >= 0 /\ p[2] < BOARD_WIDTH
       /\ b[p[1] + 1][p[2] + 1] # NULL

\* C10: isValidPosition(matrix, x, y) returns false exactly when an occupied
\* cell of the matrix maps to a column outside [0, BOARD_WIDTH), to a row
\* >= BOARD_HEIGHT, or to a row >= 0 whose board cell is occupied; it accepts
\* a placement whose occupied cells have negative rows and columns in range;
\* the call changes no state.
C10_IsValidPosition ==
  [][call'.op = "isValidPosition" =>
       /\ call'.result = ~Rejected(board, call'.shape, call'.x, call'.y)
       /\ (\A p \in Cells(call'.shape, call'.x, call'.y) :
             p[1] < 0 /\ p[2] \in 0..(BOARD_WIDTH - 1)) => call'.result
       /\ State' = State]_vars

\* C10 witness: isValidPosition has accepted a placement with a cell above the
\* board, on a board that holds locked cells.
C10_Witness ==
  /\ call.op = "isValidPosition" /\ call.result
  /\ Occupied(board) # {}
  /\ \E p \in Cells(call.shape, call.x, call.y) : p[1] < 0
  /\ \E p \in Cells(call.shape, call.x, call.y) : p[1] >= 0

\* The moves the handlers ask movePiece for, and the moves next to them.
MoveOffsets == {<<dx, dy>> \in (-1..1) \X (0..1) : dx # 0 \/ dy # 0}

\* C11: movePiece(dx, dy) returns true and sets the origin to
\* (currentX + dx, currentY + dy) exactly when the matrix is valid there;
\* otherwise it returns false and leaves the origin, the matrix, the board,
\* score, lines and level (the whole state) unchanged; an attempt that leaves
\* the board is such a rejection.
C11_MovePiece ==
  (phase = "play" /\ gameRunning) =>
    \A d \in MoveOffsets :
      LET g == movePiece(State, d[1], d[2])
          returned == canMove(State, d[1], d[2])
      IN  IF Fits(board, currentPiece.shape, currentX + d[1], currentY + d[2])
          THEN /\ returned
               /\ g = [State EXCEPT !.currentX = currentX + d[1],
                                    !.currentY = currentY + d[2]]
          ELSE ~returned /\ g = State

\* C11 witness: a running game with the piece at the left wall and on the stack
\* or the floor, so that the moves to the left and down are rejected, the move
\* to the left as out of bounds, and the move to the right is accepted.
C11_Witness ==
  /\ phase = "play" /\ gameRunning /\ ~gamePaused
  /\ \E p \in ActiveCells : p[2] = 0
  /\ ~Fits(board, currentPiece.shape, currentX, currentY + 1)
  /\ Fits(board, currentPiece.shape, currentX + 1, currentY)
  /\ currentY > 0

\* C12: when the rotated matrix is invalid at all five offsets 0, -1, +1, -2,
\* +2, the rotate command leaves the matrix and the origin of the active piece,
\* the board, score, lines and level (the whole state) exactly as they were.
C12_RotateFailure ==
  (phase = "play" /\ gameRunning /\ ~gamePaused) =>
    ((\A k \in {0, -1, 1, -2, 2} :
        ~Fits(board, Clockwise(currentPiece.shape), currentX + k, currentY))
       => handleInput(State, "up", 0, 0) = State)

\* C12 witness: a running game whose active piece is a T next to locked cells,
\* at a position it reached by rotations, whose rotated matrix is valid at none
\* of the five offsets.
C12_Witness ==
  /\ phase = "play" /\ gameRunning /\ ~gamePaused
  /\ currentPiece.kind = 2
  /\ currentPiece.shape # PIECES[3]
  /\ Occupied(board) # {}
  /\ \A k \in {0, -1, 1, -2, 2} :
       ~Fits(board, Clockwise(currentPiece.shape), currentX + k, currentY)

\* The largest row r >= currentY such that the matrix of the active piece is
\* valid at every row from currentY through r.
DropRow ==
  CHOOSE r \in currentY..BOARD_HEIGHT :
    /\ \A q \in currentY..r : Fits(board, currentPiece.shape, currentX, q)
    /\ ~Fits(board, currentPiece.shape, currentX, r + 1)

\* C13: the hard drop locks the piece, its column and matrix unchanged, at the
\* largest row r >= currentY such that the matrix is valid at every row from
\* currentY through r; the lock, the line clear and the spawn of the next piece
\* are part of the same command.
C13_HardDrop ==
  (phase = "play" /\ gameRunning /\ ~gamePaused) =>
    \A r2 \in Drawn :
      LET g == handleInput(State, "space", 0, r2)
      IN  /\ Dropped(State) = [State EXCEPT !.currentY = DropRow]
          /\ AfterLock(DropRow, g)
          /\ g.gamePaused = gamePaused /\ g.phase = phase

\* C13 witness: a running game whose piece is stopped by locked cells above a
\* row at which its matrix would be valid again.
C13_Witness ==
  /\ phase = "play" /\ gameRunning /\ ~gamePaused
  /\ Occupied(board) # {}
  /\ \E q \in (DropRow + 2)..(BOARD_HEIGHT - 1) :
       Fits(board, currentPiece.shape, currentX, q)

\* The rows at which lockPiece is looked at: the row of the active piece and
\* the rows above it, up to two rows above the board, at which its matrix is
\* valid.
LockRows ==
  {y \in (0 - 2)..currentY : Fits(board, currentPiece.shape, currentX, y)}

\* C14: the board after lockPiece equals the board before it except that every
\* occupied cell of the active matrix with absolute row >= 0 is marked as the
\* active piece's; no other cell of the board and nothing else of the state
\* changes, and the cells with a negative row are dropped.
C14_LockPieceFrame ==
  (phase = "play" /\ gameRunning) =>
    \A y \in LockRows :
      LET before == [State EXCEPT !.currentY = y]
          g == lockPiece(before)
          marked == {p \in Cells(currentPiece.shape, currentX, y) : p[1] >= 0}
      IN  /\ \A r \in 0..(BOARD_HEIGHT - 1), c \in 0..(BOARD_WIDTH - 1) :
               g.board[r + 1][c + 1] =
                 IF <<r, c>> \in marked THEN CellOf(currentPiece)
                 ELSE board[r + 1][c + 1]
          /\ Len(g.board) = BOARD_HEIGHT
          /\ g = [before EXCEPT !.board = g.board]

\* C14 witness: a running game whose board holds cells of a locked T and cells
\* of another kind, and whose active piece is a T, with empty entries in its
\* matrix, that is to be locked where it is.
C14_Witness ==
  /\ phase = "play" /\ gameRunning
  /\ currentPiece.kind = 2
  /\ ~Fits(board, currentPiece.shape, currentX, currentY + 1)
  /\ \E p \in Occupied(board) : board[p[1] + 1][p[2] + 1] = 3
  /\ \E p \in Occupied(board) : board[p[1] + 1][p[2] + 1] # 3

\* The state with the game paused: the state itself when it is, else what the
\* pause key makes of it.
PausedState == IF gamePaused THEN State ELSE handleInput(State, "p", 0, 0)

\* C15: while the game is paused, a gravity tick and the commands left, right,
\* rotate, soft drop and hard drop change nothing of the state; the pause key
\* changes gamePaused alone, so that pause on and then off gives back exactly
\* the state of before the pause.
C15_Pause ==
  (phase = "play" /\ gameRunning) =>
    /\ PausedState = [State EXCEPT !.gamePaused = TRUE]
    /\ \A r2 \in Drawn :
         /\ gameTick(PausedState, 0, r2) = PausedState
         /\ \A key \in {"left", "right", "up", "down", "space"} :
              handleInput(PausedState, key, 0, r2) = PausedState
    /\ handleInput(PausedState, "p", 0, 0) = [State EXCEPT !.gamePaused = FALSE]
    /\ ~gamePaused =>
         handleInput(handleInput(State, "p", 0, 0), "p", 0, 0) = State

\* C15 witness: a paused game with an active timer, locked cells on the board
\* and a piece that could move to either side and down and could rotate.
C15_Witness ==
  /\ phase = "play" /\ gameRunning /\ gamePaused
  /\ \E t \in 1..MaxTimers : timers[t] # 0
  /\ Occupied(board) # {}
  /\ Fits(board, currentPiece.shape, currentX, currentY + 1)
  /\ Fits(board, currentPiece.shape, currentX - 1, currentY)
  /\ Fits(board, currentPiece.shape, currentX + 1, currentY)
  /\ Fits(board, Clockwise(currentPiece.shape), currentX, currentY)
  /\ Clockwise(currentPiece.shape) # currentPiece.shape

\* The interval the speed curve gives for a level.
SpeedOf(v) ==
  LET s == INITIAL_SPEED - (v - 1) * 80
  IN  IF s > MIN_SPEED THEN s ELSE MIN_SPEED

\* C16: whenever the game is running, the interval of the timer that drives
\* the gravity ticks is max(MIN_SPEED, INITIAL_SPEED - (level - 1) * 80) for
\* the current level.
C16_TimerInterval ==
  (phase = "play" /\ gameRunning) =>
    /\ gameLoop \in 1..MaxTimers
    /\ timers[gameLoop] = SpeedOf(level)

\* C17: the game leaves the running state for game over only through a failed
\* spawn: in the step the next kind of before the step has become the active
\* piece, in its catalog matrix at its spawn position, and does not fit the
\* board the step leaves; no other step of a tick or a command ends the game.
C17_OnlySpawnFailureEnds ==
  [][(phase = "play" /\ gameRunning /\ ~gameRunning' /\ phase' = "play") =>
       /\ nextPieceIndex \in Kinds
       /\ currentPiece' = Piece(nextPieceIndex)
       /\ currentX' = SpawnColumn(Piece(nextPieceIndex))
       /\ currentY' = 0
       /\ ~Fits(board', currentPiece'.shape, currentX', currentY')]_vars

\* C17 witness: a game that is over after a lock that cleared lines, the piece
\* of the failed spawn lying over locked cells.
C17_Witness ==
  /\ phase = "play" /\ ~gameRunning
  /\ lines >= 1 /\ score >= 100
  /\ \E t \in 1..MaxTimers : timers[t] = 0
  /\ ~Fits(board, currentPiece.shape, currentX, currentY)

\* C18: within one game score never decreases: no step of a gravity tick or of
\* a player command lowers it, apart from the step that starts a new game.
C18_ScoreMonotone ==
  [][(phase = "play" /\ phase' = "play" /\ ~(~gameRunning /\ gameRunning'))
       => score' >= score]_vars

\* C18 witness: a running game that has scored twice.
C18_Witness ==
  /\ phase = "play" /\ gameRunning
  /\ lines = 2 /\ score = 200

\* g is a new game: the board empty, score 0, lines 0, level 1, running and not
\* paused, a current piece and a next kind of the catalog selected.
IsNewGame(g) ==
  /\ g.board = [r \in 1..BOARD_HEIGHT |-> [c \in 1..BOARD_WIDTH |-> NULL]]
  /\ g.score = 0 /\ g.lines = 0 /\ g.level = 1
  /\ g.gameRunning /\ ~g.gamePaused
  /\ \E k \in Kinds : g.currentPiece = [kind |-> k, shape |-> PIECES[k + 1]]
  /\ g.nextPieceIndex \in Kinds

\* C19: after initGame, at the first start (whatever the first key) and after
\* Restart from game over (whatever the state the game ended in), the board is
\* empty, score = 0, lines = 0, level = 1, the game is running and not paused,
\* and a current piece and a next kind of the catalog are selected.
C19_NewGame ==
  /\ phase = "start" =>
       \A key \in Keys \cup {"undefined"}, r1 \in Drawn, r2 \in Drawn :
         IsNewGame(firstKey(State, key, r1, r2))
  /\ (phase = "play" /\ ~gameRunning) =>
       \A r1 \in Drawn, r2 \in Drawn :
         /\ IsNewGame(initGame(State, r1, r2))
         /\ IsNewGame(handleInput(State, "r", r1, r2))

\* C19 witness: a new game started by Restart after a game that scored: the
\* board is empty and score is 0 while the high-score file holds that game's
\* score.
C19_Witness ==
  /\ phase = "play" /\ gameRunning
  /\ board = EmptyBoard /\ score = 0 /\ lines = 0 /\ currentY = 0
  /\ file # NoFile /\ file > 0

\* C20: after a spawn other than the first of a game the active piece is the
\* kind that was the next kind before the spawn, in the catalog matrix of that
\* kind whatever was rotated before, at column
\* floor((BOARD_WIDTH - matrixWidth) / 2) and row 0; the new next kind is the
\* kind drawn, any kind of the catalog, the current one included.
C20_Spawn ==
  (phase = "play" /\ gameRunning /\ ~gamePaused) =>
    \A r2 \in Drawn :
      LET g == spawnPiece(BeforeSpawn, 0, r2)
          base == PIECES[nextPieceIndex + 1]
      IN  /\ nextPieceIndex \in Kinds
          /\ g.currentPiece.kind = nextPieceIndex
          /\ g.currentPiece.shape = base
          /\ g.currentX = (BOARD_WIDTH - Len(base[1])) \div 2
          /\ g.currentY = 0
          /\ g.nextPieceIndex = r2 /\ r2 \in Kinds
          /\ g.board = BeforeSpawn.board

\* C20 witness: a running game whose active piece is rotated and about to be
\* locked, the next kind being the kind of the active piece.
C20_Witness ==
  /\ phase = "play" /\ gameRunning /\ ~gamePaused
  /\ nextPieceIndex = currentPiece.kind
  /\ currentPiece.shape # PIECES[currentPiece.kind + 1]
  /\ ~Fits(board, currentPiece.shape, currentX, currentY + 1)
  /\ Occupied(board) # {}

\* C21: whenever a game is in progress, paused or not, the Quit command (Q or
\* ESC) ends the session: gameRunning becomes false, no timer stays active and
\* the high score is saved (a score above highScore is in the file).
C21_QuitEndsSession ==
  (phase = "play" /\ gameRunning) =>
    \A key \in {"q", "Q", "escape"} :
      LET g == handleInput(State, key, 0, 0)
      IN  /\ g.phase = "exited"
          /\ ~g.gameRunning
          /\ \A t \in 1..MaxTimers : g.timers[t] = 0
          /\ score > highScore => g.file = score

\* C22: on the game-over screen both offered commands work: R starts a new
\* game and Q reaches quitGame, which ends the session.
C22_GameOverCommands ==
  (phase = "play" /\ ~gameRunning) =>
    /\ \A r1 \in Drawn, r2 \in Drawn :
         LET g == handleInput(State, "r", r1, r2)
         IN  IsNewGame(g) /\ g.gameLoop # NULL
    /\ handleInput(State, "q", 0, 0).phase = "exited"

\* C23: Snake high-score persistence: whenever the file is written, the value
\* written is the high score, and the stored value never becomes lower than a
\* value stored earlier.
C23_SnakeStoredHighScore ==
  [][snakeFile' # snakeFile =>
       /\ snakeFile' = snakeHighScore'
       /\ snakeFile # NoFile => snakeFile' >= snakeFile]_vars

\* The cell ahead of the head of the snake in the direction the next tick
\* commits, and the cells the snake occupies.
Ahead == Point(snake[1].x + nextDirection.x, snake[1].y + nextDirection.y)
SnakeCells == {snake[i] : i \in 1..Len(snake)}
InField(p) == p.x \in 0..(WIDTH - 1) /\ p.y \in 0..(HEIGHT - 1)

\* C24: on an unpaused tick of a running Snake game, the game ends exactly
\* when the cell ahead is outside the field or occupied by a segment of the
\* snake (the tail's cell included); when it ends the snake and the score are
\* unchanged; otherwise the head advances to the cell ahead, and the snake
\* grows by one and the score by 10 exactly when that cell holds the food,
\* the length and the score staying as they are when it does not.
C24_SnakeUpdate ==
  (snakePhase = "play" /\ snakeRunning /\ ~snakePaused) =>
    \A f \in TickFood :
      LET s == snake_gameTick(SnakeState, f)
          n == Len(snake)
      IN  /\ ~s.gameRunning <=> (~InField(Ahead) \/ Ahead \in SnakeCells)
          /\ ~s.gameRunning => s.snake = snake /\ s.score = snakeScore
          /\ s.gameRunning =>
               /\ s.snake[1] = Ahead
               /\ \A i \in 2..Len(s.snake) : s.snake[i] = snake[i - 1]
               /\ Ahead = food => Len(s.snake) = n + 1 /\ s.score = snakeScore + 10
               /\ Ahead # food => Len(s.snake) = n /\ s.score = snakeScore

\* A running snake whose next tick moves the head onto the cell of its tail.
C24_Witness ==
  /\ snakePhase = "play" /\ snakeRunning /\ ~snakePaused
  /\ Len(snake) > 1
  /\ Ahead = snake[Len(snake)]

\* C25: persistence failures degrade gracefully.  With a high-score file that
\* cannot be read or whose text is no number, the high score is 0 and the
\* first key starts a new game as usual.  With a file that cannot be written,
\* the save at game over leaves score, lines, level and board as the lock and
\* the line clear left them and the process goes on (the game-over screen is
\* up, the file is as it was), and the save at quit ends the process normally.
C25_PersistenceFailures ==
  /\ (phase = "start" /\ file \in BadFiles) =>
       /\ highScore = 0
       /\ \A key \in Keys \cup {"undefined"} : \A r1, r2 \in Drawn :
            LET g == firstKey(State, key, r1, r2)
            IN  IsNewGame(g) /\ g.highScore = 0
  /\ (phase = "play" /\ gameRunning /\ ~gamePaused /\ file = Unreadable) =>
       /\ \A r2 \in Drawn :
            LET pre == BeforeSpawn
                g == hardDrop(State, 0, r2)
            IN  ~g.gameRunning =>
                  /\ g.score = pre.score /\ g.lines = pre.lines
                  /\ g.level = pre.level /\ g.board = pre.board
                  /\ g.highScore = highScore
                  /\ g.phase = "play" /\ g.file = Unreadable
       /\ LET q == quitGame(State)
          IN  q.phase = "exited" /\ q.file = Unreadable

\* A game on a file that cannot be written, with a score above the high
\* score, in which a hard drop ends the game: the save is tried and fails.
C25_Witness ==
  /\ phase = "play" /\ gameRunning /\ ~gamePaused /\ file = Unreadable
  /\ score > highScore
  /\ \E r2 \in Drawn : ~hardDrop(State, 0, r2).gameRunning

\* The timers that are active.
ActiveTimers == {t \in 1..MaxTimers : timers[t] # 0}

\* C26: in every reachable state at most one tick interval timer is active,
\* whatever key started the game and after every game over and Restart.
C26_OneTimer == Cardinality(ActiveTimers) <= 1

\* C26 for Snake: at most one tick interval timer is active, also after the
\* timer is replaced when food is eaten.
C26_SnakeOneTimer ==
  Cardinality({t \in 1..MaxTimers : snakeTimers[t] # 0}) <= 1

\* The board as the lock of a hard drop leaves it, before the line clear; a
\* piece that cannot move down locks where it stands.
DroppedAndLocked == lockPiece(Dropped(State))

\* The rows of the board that hold a cell of the piece once it is dropped.
DroppedRows ==
  LET g == Dropped(State)
  IN  {p[1] : p \in Cells(g.currentPiece.shape, g.currentX, g.currentY)}

\* C27: between operations the board holds no completely full row, so the
\* rows a lock fills are rows of the locked piece, at most 4 of them, the
\* index into the point table is in its range, and the score is a defined
\* integer.
C27_NoFullRowAtRest ==
  /\ phase = "play" => \A r \in 1..BOARD_HEIGHT : HasGap(board[r])
  /\ score \in Nat
  /\ (phase = "play" /\ gameRunning) =>
       LET b == DroppedAndLocked.board
           n == FullRowCount(b)
       IN  /\ \A r \in 0..(BOARD_HEIGHT - 1) : ~HasGap(b[r + 1]) => r \in DroppedRows
           /\ n <= 4
           /\ n + 1 \in DOMAIN points
           /\ clearLines(DroppedAndLocked).score \in Nat

\* A piece whose lock fills several rows at once.
C27_Witness ==
  /\ phase = "play" /\ gameRunning
  /\ FullRowCount(DroppedAndLocked.board) >= 2

\* The number of occupied cells of a board.
OccupiedCount(b) == Cardinality(Occupied(b))

\* C28: the origin row of the piece is never negative, so a lock writes every
\* cell of the piece: it adds exactly 4 occupied cells, and after the lock and
\* the line clear the board holds the cells of before, plus 4, minus
\* BOARD_WIDTH for each line cleared.
C28_LockAddsFourCells ==
  /\ currentY >= 0
  /\ (phase = "play" /\ gameRunning) =>
       LET locked == DroppedAndLocked
           cleared == clearLines(locked)
           n == cleared.lines - lines
       IN  /\ Dropped(State).currentY >= 0
           /\ OccupiedCount(locked.board) = OccupiedCount(board) + 4
           /\ OccupiedCount(cleared.board)
                = OccupiedCount(board) + 4 - BOARD_WIDTH * n

\* A piece that locks with a cell in the top row of the board, on a lock that
\* clears a line.
C28_Witness ==
  /\ phase = "play" /\ gameRunning
  /\ 0 \in DroppedRows
  /\ FullRowCount(DroppedAndLocked.board) >= 1

\* C29: from its spawn, after at most BOARD_HEIGHT gravity ticks delivered
\* while the game is running and unpaused, the active piece has been locked
\* (or the game is over), whatever move, rotate and soft-drop commands come
\* in between: a piece is never moved by BOARD_HEIGHT ticks.
C29_LockWithinHeightTicks == gameRunning => ticks <= BOARD_HEIGHT - 1

\* A piece that BOARD_HEIGHT - 1 gravity ticks have moved down to the bottom
\* row, where the next tick locks it.
C29_Witness ==
  /\ phase = "play" /\ gameRunning /\ ~gamePaused
  /\ ticks = BOARD_HEIGHT - 1
  /\ ~canMove(State, 0, 1)

\* The key names of the commands that act on the piece or pause the game.
PieceAndPauseKeys ==
  {"left", "a", "right", "d", "up", "w", "down", "s", "space", "p", "P", "x"}

\* C30: game over is absorbing: once the game is over, a gravity tick and
\* every command other than Restart (move, rotate, soft drop, hard drop,
\* pause) leave the board, the active piece, score, lines, level and the
\* flags, and all the rest of the state, as they are.
C30_GameOverAbsorbing ==
  (phase = "play" /\ ~gameRunning) =>
    \A r1 \in Drawn, r2 \in Drawn :
      /\ gameTick(State, r1, r2) = State
      /\ \A key \in PieceAndPauseKeys : handleInput(State, key, r1, r2) = State

\* A game that is over while a timer still fires gravity ticks (the handle of
\* the timer was lost at the start).
C30_Witness ==
  /\ phase = "play" /\ ~gameRunning
  /\ ActiveTimers # {}
  /\ Occupied(board) # {}

\* The exact opposite of a direction, and the key name that asks for a
\* direction.
Opposite(d) == Point(0 - d.x, 0 - d.y)

KeyOf(d) ==
  IF d = Point(0, -1) THEN "up"
  ELSE IF d = Point(0, 1) THEN "down"
  ELSE IF d = Point(-1, 0) THEN "left"
  ELSE "right"

\* C31: whatever direction keys are pressed between two ticks, the direction
\* a tick of a running game commits is never the exact opposite of the
\* direction committed at the previous tick: the direction waiting to be
\* committed is never the opposite of the committed one, the cell ahead is
\* never the neck of the snake, and no step of a game reverses direction.
C31_NoReversal ==
  [][/\ snakeRunning =>
          /\ nextDirection # Opposite(direction)
          /\ Ahead # snake[2]
     /\ (snakeRunning /\ snakePhase' = "play") =>
          direction' # Opposite(direction)]_vars

\* A running snake with a turn waiting to be committed, on which the key of
\* the direction opposite to the committed one is pressed and refused.
C31_Witness ==
  /\ snakePhase = "play" /\ snakeRunning /\ ~snakePaused
  /\ nextDirection # direction
  /\ snake_handleInput(SnakeState, KeyOf(Opposite(direction)), food).nextDirection
       = nextDirection

====
